---- MODULE Spec2Model ----
(***************************************************************************)
(* Model of src/sui/sui_types.py: the descriptor and object hierarchies,   *)
(* the two classifiers from_object_descriptor and from_object_type, and    *)
(* SuiDataType.add_child.                                                  *)
(*                                                                         *)
(* Strings are sequences of one-character strings, so that str.split and   *)
(* the slice [5:-1] are computed character by character as Python does.    *)
(* A Python dict is a function from its keys to its values; dicts that the *)
(* code holds by reference live in the heap `dicts` and are named by id.   *)
(***************************************************************************)
EXTENDS Integers, Sequences, FiniteSets, TLC

VARIABLES
    dicts,      \* heap of the caller's mappings: id -> mapping
    descs,      \* descriptors constructed so far, in construction order
    objs,       \* objects constructed so far, in construction order
    dres,       \* outcome of the latest from_object_descriptor call
    ores,       \* outcome of the latest from_object_type call
    appended,   \* per object: the children handed to add_child, in order
    handed,     \* per object: the descriptor handed to from_object_type
    shape,      \* how the type signature under test was put together
    ev          \* the latest event

vars == <<dicts, descs, objs, dres, ores, appended, handed, shape, ev>>

----------------------------------------------------------------------------
(* Bounds of the model *)

\* pieces inside the generic argument of a residual
MaxInner == 3
\* descriptors constructed in one behaviour
MaxDescs == 2
\* objects constructed in one behaviour
MaxObjs == 2
\* children held by all objects together
MaxChildren == 2

----------------------------------------------------------------------------
(* Literals of the source *)

Sep == <<":", ":">>
Str0x2 == <<"0", "x", "2">>
StrCoin == <<"c", "o", "i", "n">>
StrDevnetNft == <<"d", "e", "v", "n", "e", "t", "_", "n", "f", "t">>
StrDevNetNFT == <<"D", "e", "v", "N", "e", "t", "N", "F", "T">>
StrSUI == <<"S", "U", "I">>
MaxSplit == 2
SliceStart == 5
SliceStop == -1
NoLimit == -1

----------------------------------------------------------------------------
(* Python's str and dict primitives *)

Min(a, b) == IF a <= b THEN a ELSE b
Max(a, b) == IF a >= b THEN a ELSE b

\* s[start:stop] for start >= 0 and stop < 0
PySlice(s, start, stop) ==
    LET lo == Min(start, Len(s))
        hi == Max(Len(s) + stop, 0)
    IN  IF lo >= hi THEN <<>> ELSE SubSeq(s, lo + 1, hi)

\* s[start:]
PySliceFrom(s, start) ==
    IF start >= Len(s) THEN <<>> ELSE SubSeq(s, start + 1, Len(s))

RECURSIVE PySplitFrom(_, _, _, _, _)
PySplitFrom(s, sep, maxsplit, i, cur) ==
    IF i > Len(s) THEN <<cur>>
    ELSE IF /\ maxsplit # 0
            /\ i + Len(sep) - 1 <= Len(s)
            /\ SubSeq(s, i, i + Len(sep) - 1) = sep
         THEN <<cur>> \o PySplitFrom(s, sep, maxsplit - 1, i + Len(sep), <<>>)
         ELSE PySplitFrom(s, sep, maxsplit, i + 1, Append(cur, s[i]))

\* s.split(sep, maxsplit); maxsplit = -1 is no limit
PySplit(s, sep, maxsplit) == PySplitFrom(s, sep, maxsplit, 1, <<>>)

\* dict(zip(keys, values)): pairs up to the shorter of the two
PyDictZip(keys, values) ==
    LET n == Min(Len(keys), Len(values))
    IN  [k \in {keys[i] : i \in 1..n} |->
            values[CHOOSE i \in 1..n : keys[i] = k]]

\* the mapping m without the keys K
Without(m, K) == [k \in DOMAIN m \ K |-> m[k]]

\* the mapping m with m[k] = v
With(m, k, v) == [x \in DOMAIN m \cup {k} |-> IF x = k THEN v ELSE m[x]]

\* whether m[p[1]][p[2]]... can be read
RECURSIVE HasPath(_, _)
HasPath(m, p) ==
    IF p = <<>> THEN TRUE
    ELSE Head(p) \in DOMAIN m /\ HasPath(m[Head(p)], Tail(p))

\* the index of the first read of `paths` that raises KeyError, 0 if none
RECURSIVE FirstMissingFrom(_, _, _)
FirstMissingFrom(m, paths, i) ==
    IF i > Len(paths) THEN 0
    ELSE IF HasPath(m, paths[i]) THEN FirstMissingFrom(m, paths, i + 1)
    ELSE i

FirstMissing(m, paths) == FirstMissingFrom(m, paths, 1)

RECURSIVE Join(_, _)
Join(parts, sep) ==
    IF parts = <<>> THEN <<>>
    ELSE IF Len(parts) = 1 THEN parts[1]
    ELSE parts[1] \o sep \o Join(Tail(parts), sep)

----------------------------------------------------------------------------
(* The classifiers' dispatch on the type signature *)

\* faulty variant of GenericUnwrap: the slice keeps the last character
GenericUnwrapKeepSuffix(residual) ==
    PySplit(PySliceFrom(residual, SliceStart), Sep, NoLimit)

\* split[2][5:-1].split("::")
GenericUnwrap(residual) ==
    PySplit(PySlice(residual, SliceStart, SliceStop), Sep, NoLimit)

\* faulty variant of DescriptorClassOf: devnet_nft is an NFT whatever the
\* residual
DescriptorClassOfAnyNft(ts) ==
    LET split == PySplit(ts, Sep, MaxSplit) IN
    IF split[1] = Str0x2
    THEN IF Len(split) < 2 THEN "IndexError"
         ELSE IF split[2] = StrCoin
         THEN IF Len(split) < 3 THEN "IndexError"
              ELSE LET split2 == GenericUnwrap(split[3]) IN
                   IF Len(split2) < 3 THEN "IndexError"
                   ELSE IF split2[3] = StrSUI THEN "SuiNativeCoinDescriptor"
                   ELSE "SuiCoinDescriptor"
         ELSE IF split[2] = StrDevnetNft
         THEN IF Len(split) < 3 THEN "IndexError"
              ELSE "SuiNftDescriptor"
         ELSE "ObjectInfo"
    ELSE IF Len(split) = 3 THEN "SuiDataDescriptor"
         ELSE "ObjectInfo"

\* faulty variant of DescriptorClassOf: a coin whose unwrapped argument is
\* short is taken for a generic coin instead of raising
DescriptorClassOfLenient(ts) ==
    LET split == PySplit(ts, Sep, MaxSplit) IN
    IF split[1] = Str0x2
    THEN IF Len(split) < 2 THEN "IndexError"
         ELSE IF split[2] = StrCoin
         THEN IF Len(split) < 3 THEN "IndexError"
              ELSE LET split2 == GenericUnwrap(split[3]) IN
                   IF Len(split2) >= 3 /\ split2[3] = StrSUI
                   THEN "SuiNativeCoinDescriptor"
                   ELSE "SuiCoinDescriptor"
         ELSE IF split[2] = StrDevnetNft
         THEN IF Len(split) < 3 THEN "IndexError"
              ELSE IF split[3] = StrDevNetNFT THEN "SuiNftDescriptor"
              ELSE "ObjectInfo"
         ELSE "ObjectInfo"
    ELSE IF Len(split) = 3 THEN "SuiDataDescriptor"
         ELSE "ObjectInfo"

\* from_object_descriptor: the class constructed for type signature ts, or
\* "IndexError" where an index into split or split2 is out of range
DescriptorClassOf(ts) ==
    LET split == PySplit(ts, Sep, MaxSplit) IN
    IF split[1] = Str0x2
    THEN IF Len(split) < 2 THEN "IndexError"
         ELSE IF split[2] = StrCoin
         THEN IF Len(split) < 3 THEN "IndexError"
              ELSE LET split2 == GenericUnwrap(split[3]) IN
                   IF Len(split2) < 3 THEN "IndexError"
                   ELSE IF split2[3] = StrSUI THEN "SuiNativeCoinDescriptor"
                   ELSE "SuiCoinDescriptor"
         ELSE IF split[2] = StrDevnetNft
         THEN IF Len(split) < 3 THEN "IndexError"
              ELSE IF split[3] = StrDevNetNFT THEN "SuiNftDescriptor"
              ELSE "ObjectInfo"
         ELSE "ObjectInfo"
    ELSE IF Len(split) = 3 THEN "SuiDataDescriptor"
         ELSE "ObjectInfo"

\* faulty variant of ObjectClassOf: outside 0x2 two components are enough
\* for structured data
ObjectClassOfShortData(ts) ==
    LET split == PySplit(ts, Sep, MaxSplit) IN
    IF split[1] = Str0x2
    THEN IF Len(split) < 2 THEN "IndexError"
         ELSE IF split[2] = StrCoin
         THEN IF Len(split) < 3 THEN "IndexError"
              ELSE LET split2 == GenericUnwrap(split[3]) IN
                   IF Len(split2) < 3 THEN "IndexError"
                   ELSE IF split2[3] = StrSUI THEN "SuiGasType"
                   ELSE "SuiCoinType"
         ELSE IF split[2] = StrDevnetNft
         THEN IF Len(split) < 3 THEN "IndexError"
              ELSE IF split[3] = StrDevNetNFT THEN "SuiNftType"
              ELSE "ObjectRead"
         ELSE "ObjectRead"
    ELSE IF Len(split) >= 2 THEN "SuiDataType"
         ELSE "ObjectRead"

\* from_object_type: the same dispatch, over the object classes
ObjectClassOf(ts) ==
    LET split == PySplit(ts, Sep, MaxSplit) IN
    IF split[1] = Str0x2
    THEN IF Len(split) < 2 THEN "IndexError"
         ELSE IF split[2] = StrCoin
         THEN IF Len(split) < 3 THEN "IndexError"
              ELSE LET split2 == GenericUnwrap(split[3]) IN
                   IF Len(split2) < 3 THEN "IndexError"
                   ELSE IF split2[3] = StrSUI THEN "SuiGasType"
                   ELSE "SuiCoinType"
         ELSE IF split[2] = StrDevnetNft
         THEN IF Len(split) < 3 THEN "IndexError"
              ELSE IF split[3] = StrDevNetNFT THEN "SuiNftType"
              ELSE "ObjectRead"
         ELSE "ObjectRead"
    ELSE IF Len(split) = 3 THEN "SuiDataType"
         ELSE "ObjectRead"

----------------------------------------------------------------------------
(* Constructors.  Each returns the outcome of the call and the sequence of *)
(* the constructed instances (empty when the constructor raised).          *)

\* what a call did: kind is "ok", "KeyError" or "IndexError" ("none" before
\* any call), key the missing key, reads the keys read in order, cls the
\* class constructed, arg the mapping the call was handed as it was then,
\* given the descriptor handed to from_object_type, ref the new instance
Outcome(kind, key, reads, cls, arg, given, ref) ==
    [kind |-> kind, key |-> key, reads |-> reads, cls |-> cls,
     arg |-> arg, given |-> given, ref |-> ref]

NoCall == Outcome("none", "", <<>>, "", <<>>, 0, 0)

\* faulty variant of ObjectInfoReads: version is read before objectId
ObjectInfoReadsVersionFirst ==
    << <<"version">>, <<"objectId">>, <<"digest">>, <<"owner">>,
       <<"owner", "AddressOwner">>, <<"previousTransaction">>, <<"type">> >>

\* the keys ObjectInfo.__init__ reads, in the order it reads them
ObjectInfoReads ==
    << <<"objectId">>, <<"version">>, <<"digest">>, <<"owner">>,
       <<"owner", "AddressOwner">>, <<"previousTransaction">>, <<"type">> >>

\* ObjectInfo.__init__ (and SuiRawDescriptor.__init__) for class cls on the
\* mapping indata held at heap id raw
ObjectInfo_init(cls, raw, indata) ==
    LET i == FirstMissing(indata, ObjectInfoReads) IN
    IF i # 0
    THEN [kind |-> "KeyError",
          key |-> ObjectInfoReads[i][Len(ObjectInfoReads[i])],
          reads |-> SubSeq(ObjectInfoReads, 1, i),
          new |-> <<>>]
    ELSE [kind |-> "ok", key |-> "", reads |-> ObjectInfoReads,
          new |-> << [cls |-> cls,
                      raw |-> raw,
                      object_id |-> indata.objectId,
                      version |-> indata.version,
                      digest |-> indata.digest,
                      owner |-> indata.owner.AddressOwner,
                      previous_transaction |-> indata.previousTransaction,
                      type_signature |-> indata.type] >>]

\* the keys ObjectRead.__init__ reads, in the order it reads them
ObjectReadReads ==
    << <<"fields">>, <<"fields", "id">>, <<"fields", "id", "id">>,
       <<"type">>, <<"dataType">>, <<"has_public_transfer">>,
       <<"previousTransaction">>, <<"storageRebate">> >>

\* the keys the subclass constructor reads after ObjectRead.__init__
SubclassReads(cls) ==
    IF cls = "SuiNftType"
    THEN << <<"fields", "description">>, <<"fields", "name">>,
            <<"fields", "url">> >>
    ELSE IF cls = "SuiGasType" THEN << <<"fields", "balance">> >>
    ELSE <<>>

\* faulty variant of DataDefinition: the signature is cut on every "::"
DataDefinitionEverySplit(type_signature) ==
    PyDictZip(<<"package", "module", "structure">>,
              PySplit(type_signature, Sep, NoLimit))

\* SuiDataType.__init__: dict(zip(["package", "module", "structure"], split))
DataDefinition(type_signature) ==
    PyDictZip(<<"package", "module", "structure">>,
              PySplit(type_signature, Sep, MaxSplit))

\* the reference ObjectRead.__init__ keeps in self._descriptor
AttachedDescriptor(descriptor) == descriptor

\* the fields ObjectRead.__init__ sets
ObjectReadFields(cls, raw, indata, descriptor) ==
    [cls |-> cls,
     raw |-> raw,
     object_id |-> indata.fields.id.id,
     type_signature |-> indata.type,
     data_type |-> indata.dataType,
     has_public_transfer |-> indata.has_public_transfer,
     descriptor |-> AttachedDescriptor(descriptor),
     previous_transaction |-> indata.previousTransaction,
     storage_rebate |-> indata.storageRebate]

\* the children list SuiDataType.__init__ starts with
InitialChildren == <<>>

\* the fields the subclass constructor adds
SubclassFields(cls, indata) ==
    IF cls = "SuiNftType"
    THEN [description |-> indata.fields.description,
          name |-> indata.fields.name,
          url |-> indata.fields.url]
    ELSE IF cls = "SuiGasType" THEN [balance |-> indata.fields.balance]
    ELSE IF cls = "SuiDataType"
    THEN [children |-> InitialChildren,
          data |-> Without(indata.fields, {"id"}),
          data_definition |-> DataDefinition(indata.type)]
    ELSE <<>>

\* the record r extended with the fields of record x
Extend(r, x) ==
    [k \in DOMAIN r \cup DOMAIN x |-> IF k \in DOMAIN x THEN x[k] ELSE r[k]]

\* the constructor of object class cls on the mapping indata held at heap
\* id raw, with the descriptor reference it is handed
Object_init(cls, raw, indata, descriptor) ==
    LET paths == ObjectReadReads \o SubclassReads(cls)
        i == FirstMissing(indata, paths)
    IN  IF i # 0
        THEN [kind |-> "KeyError", key |-> paths[i][Len(paths[i])],
              reads |-> SubSeq(paths, 1, i), new |-> <<>>]
        ELSE [kind |-> "ok", key |-> "", reads |-> paths,
              new |-> << Extend(ObjectReadFields(cls, raw, indata, descriptor),
                                SubclassFields(cls, indata)) >>]

----------------------------------------------------------------------------
(* The two classifiers, as functions of the heap *)

\* from_object_descriptor(indata), indata the mapping at heap id `id`
FromObjectDescriptor(ds, id) ==
    LET indata == ds[id] IN
    IF "type" \notin DOMAIN indata
    THEN [kind |-> "KeyError", key |-> "type", reads |-> << <<"type">> >>,
          cls |-> "", new |-> <<>>]
    ELSE LET cls == DescriptorClassOf(indata.type) IN
         IF cls = "IndexError"
         THEN [kind |-> "IndexError", key |-> "", reads |-> << <<"type">> >>,
               cls |-> "", new |-> <<>>]
         ELSE LET r == ObjectInfo_init(cls, id, indata) IN
              [kind |-> r.kind, key |-> r.key,
               reads |-> << <<"type">> >> \o r.reads,
               cls |-> IF r.kind = "ok" THEN cls ELSE "", new |-> r.new]

\* the heap after indata[k] = inblock[k], indata the mapping at heap id did
CopyKey(ds, did, inblock, k) ==
    [ds EXCEPT ![did] = With(@, k, inblock[k])]

\* from_object_type(descriptor, inblock), inblock the mapping at heap id bid;
\* heap is the heap the call leaves behind, also when it raises
FromObjectType(ds, descriptor, bid) ==
    LET inblock == ds[bid]
        fail(kind, key, reads, heap) ==
            [kind |-> kind, key |-> key, reads |-> reads, cls |-> "",
             new |-> <<>>, heap |-> heap]
        r1 == << <<"data">> >>
        r2 == r1 \o << <<"previousTransaction">> >>
        r3 == r2 \o << <<"storageRebate">> >>
        r4 == r3 \o << <<"type">> >>
    IN
    IF "data" \notin DOMAIN inblock THEN fail("KeyError", "data", r1, ds)
    ELSE IF "previousTransaction" \notin DOMAIN inblock
    THEN fail("KeyError", "previousTransaction", r2, ds)
    ELSE
    LET did == inblock.data
        ds1 == CopyKey(ds, did, inblock, "previousTransaction")
    IN
    IF "storageRebate" \notin DOMAIN inblock
    THEN fail("KeyError", "storageRebate", r3, ds1)
    ELSE
    LET ds2 == CopyKey(ds1, did, inblock, "storageRebate")
        indata == ds2[did]
    IN
    IF "type" \notin DOMAIN indata THEN fail("KeyError", "type", r4, ds2)
    ELSE
    LET cls == ObjectClassOf(indata.type) IN
    IF cls = "IndexError" THEN fail("IndexError", "", r4, ds2)
    ELSE
    LET r == Object_init(cls, did, indata, descriptor) IN
    [kind |-> r.kind, key |-> r.key, reads |-> r4 \o r.reads,
     cls |-> IF r.kind = "ok" THEN cls ELSE "", new |-> r.new, heap |-> ds2]

----------------------------------------------------------------------------
(* Accessors *)

\* SuiRawDescriptor.json of descriptor i: json.dumps(self._type_raw), the
\* serialisation of what the referenced mapping holds when json is called
DescriptorJson(i) == dicts[descs[i].raw]

\* SuiRawObject.json of object o
ObjectJson(o) == dicts[objs[o].raw]

\* faulty variant of ObjectVersion: the content's own version key wins
ObjectVersionFromContent(o) ==
    IF "version" \in DOMAIN dicts[objs[o].raw]
    THEN dicts[objs[o].raw].version
    ELSE descs[objs[o].descriptor].version

\* ObjectRead.version and ObjectRead.digest of object o
ObjectVersion(o) == descs[objs[o].descriptor].version

ObjectDigest(o) == descs[objs[o].descriptor].digest

\* faulty variant of AddChildTo: the child goes to the front
AddChildFirst(children, child) == <<child>> \o children

\* SuiDataType.add_child: self.children.append(child)
AddChildTo(children, child) == Append(children, child)

----------------------------------------------------------------------------
(* The caller's inputs.  A type signature is put together from a package,  *)
(* an optional module and an optional residual head ++ inner ++ tail, the  *)
(* inner pieces joined by "::"; shape.n is the number of components given. *)

StrOther == <<"0", "x", "a">>
StrM == <<"m">>
StrT == <<"t">>
StrCoinOpen == <<"C", "o", "i", "n", "<">>
StrXoinOpen == <<"X", "o", "i", "n", "<">>
StrCoOpen == <<"C", "o", "<">>
StrClose == <<">">>

Pkgs == {Str0x2, StrOther}
Mods == {StrCoin, StrDevnetNft, StrM}
Heads == {StrCoinOpen, StrXoinOpen, StrCoOpen, <<>>}
Tails == {StrClose, <<>>}
InnerVocab == {StrSUI, StrT, <<>>}
InnerSeqs == UNION {[1..k -> InnerVocab] : k \in 0..MaxInner}

ShapeOf(n, pkg, mod, head, inner, tail) ==
    [n |-> n, pkg |-> pkg, mod |-> mod, head |-> head, inner |-> inner,
     tail |-> tail]

Shapes ==
    {ShapeOf(1, p, <<>>, <<>>, <<>>, <<>>) : p \in Pkgs}
    \cup {ShapeOf(2, pm[1], pm[2], <<>>, <<>>, <<>>) : pm \in Pkgs \X Mods}
    \cup {ShapeOf(3, x[1], x[2], x[3], x[4], x[5]) :
            x \in Pkgs \X Mods \X Heads \X InnerSeqs \X Tails}
    \cup {ShapeOf(3, pm[1], pm[2], StrDevNetNFT, <<>>, <<>>) :
            pm \in Pkgs \X Mods}

Residual(sh) == sh.head \o Join(sh.inner, Sep) \o sh.tail

Signature(sh) ==
    Join(SubSeq(<<sh.pkg, sh.mod, Residual(sh)>>, 1, sh.n), Sep)

\* one signature of each kind, for the runs that vary the other keys
CoreShapes ==
    {ShapeOf(3, Str0x2, StrCoin, StrCoinOpen, <<StrOther, StrT, StrSUI>>, StrClose),
     ShapeOf(3, Str0x2, StrCoin, StrCoinOpen, <<StrOther, StrT, StrT>>, StrClose),
     ShapeOf(3, Str0x2, StrCoin, StrCoinOpen, <<StrT>>, StrClose),
     ShapeOf(3, Str0x2, StrDevnetNft, StrDevNetNFT, <<>>, <<>>),
     ShapeOf(3, Str0x2, StrM, <<>>, <<StrT>>, <<>>),
     ShapeOf(3, StrOther, StrM, <<>>, <<StrT>>, <<>>)}

\* the signature of the record "baseIn": 0x2::coin::Coin<0xa::t::SUI>
BaseShape ==
    ShapeOf(3, Str0x2, StrCoin, StrCoinOpen, <<StrOther, StrT, StrSUI>>, StrClose)

RECURSIVE RemovePath(_, _)
RemovePath(m, p) ==
    IF Len(p) = 1 THEN Without(m, {p[1]})
    ELSE IF p[1] \in DOMAIN m
    THEN [m EXCEPT ![p[1]] = RemovePath(@, Tail(p))]
    ELSE m

RECURSIVE RemovePaths(_, _)
RemovePaths(m, P) ==
    IF P = {} THEN m
    ELSE LET p == CHOOSE q \in P : TRUE
         IN  RemovePaths(RemovePath(m, p), P \ {p})

\* a metadata record as the read API returns it
DescriptorInput(ts) ==
    [objectId |-> "0xabc", version |-> 1, digest |-> "dg1",
     owner |-> [AddressOwner |-> "0xown"], previousTransaction |-> "tx1",
     type |-> ts]

\* the data mapping of a content block; own: it carries version and digest
\* keys of its own, differing from the descriptor's
DataInput(ts, own) ==
    LET base == [type |-> ts, dataType |-> "moveObject",
                 has_public_transfer |-> TRUE,
                 fields |-> [id |-> [id |-> "0xabc"], balance |-> 100,
                             name |-> "n", description |-> "d", url |-> "u"]]
    IN  IF own THEN Extend(base, [version |-> 9, digest |-> "dg9"]) ELSE base

BlockInput == [data |-> "data", previousTransaction |-> "tx2", storageRebate |-> 7]

InputOf(sh, dabsent, iabsent, babsent, own) ==
    [shape |-> sh, dabsent |-> dabsent, iabsent |-> iabsent,
     babsent |-> babsent, own |-> own]

DAbsentOptions ==
    {{}, {<<"objectId">>}, {<<"type">>}, {<<"objectId">>, <<"type">>},
     {<<"objectId">>, <<"version">>}, {<<"owner", "AddressOwner">>}}

\* <<keys absent from data, keys absent from the block>>
IBAbsentOptions ==
    {<<{}, {}>>, <<{<<"fields", "balance">>}, {}>>, <<{<<"type">>}, {}>>,
     <<{}, {<<"storageRebate">>}>>}

ClassifyInputs ==
    {InputOf(sh, {}, {}, {}, FALSE) : sh \in Shapes}
    \cup {InputOf(x[1], x[2], x[3][1], x[3][2], FALSE) :
            x \in CoreShapes \X DAbsentOptions \X IBAbsentOptions}

LifecycleInputs ==
    {InputOf(x[1], {}, x[2][1], x[2][2], x[3]) :
        x \in CoreShapes \X IBAbsentOptions \X BOOLEAN}

\* the writes the caller may make to its own mappings after handing them over
CallerWrites ==
    {<<"descIn", "version", 2>>}

----------------------------------------------------------------------------
(* State machine *)

\* The caller holds a metadata record "descIn" and a content block "block"
\* with its data mapping "data", all carrying the signature under test, and
\* a descriptor already built from the well-formed record "baseIn".
InitFrom(inputs) ==
    \E in \in inputs :
        LET ts == Signature(in.shape)
            heap == [id \in {"descIn", "block", "data", "baseIn"} |->
                        CASE id = "descIn" ->
                                RemovePaths(DescriptorInput(ts), in.dabsent)
                          [] id = "block" -> RemovePaths(BlockInput, in.babsent)
                          [] id = "data" ->
                                RemovePaths(DataInput(ts, in.own), in.iabsent)
                          [] OTHER ->
                                DescriptorInput(Signature(BaseShape))]
        IN  /\ dicts = heap
            /\ descs = FromObjectDescriptor(heap, "baseIn").new
            /\ objs = <<>>
            /\ dres = NoCall
            /\ ores = NoCall
            /\ appended = <<>>
            /\ handed = <<>>
            /\ shape = in.shape
            /\ ev = "init"

from_object_descriptor(id) ==
    /\ Len(descs) < MaxDescs
    /\ \E r \in {FromObjectDescriptor(dicts, id)} :
        /\ descs' = descs \o r.new
        /\ dres' = Outcome(r.kind, r.key, r.reads, r.cls, dicts[id], 0,
                           IF r.kind = "ok" THEN Len(descs) + 1 ELSE 0)
    /\ ev' = "from_object_descriptor"
    /\ UNCHANGED <<dicts, objs, ores, appended, handed, shape>>

from_object_type(descriptor, bid) ==
    /\ Len(objs) < MaxObjs
    /\ \E r \in {FromObjectType(dicts, descriptor, bid)} :
        /\ dicts' = r.heap
        /\ objs' = objs \o r.new
        /\ appended' = appended \o [i \in 1..Len(r.new) |-> <<>>]
        /\ handed' = handed \o [i \in 1..Len(r.new) |-> descriptor]
        /\ ores' = Outcome(r.kind, r.key, r.reads, r.cls,
                           IF "data" \in DOMAIN dicts[bid]
                           THEN dicts[dicts[bid].data] ELSE <<>>,
                           descriptor,
                           IF r.kind = "ok" THEN Len(objs) + 1 ELSE 0)
    /\ ev' = "from_object_type"
    /\ UNCHANGED <<descs, dres, shape>>

\* the number of children held by the first n objects together
RECURSIVE ChildrenHeld(_)
ChildrenHeld(n) ==
    IF n = 0 THEN 0
    ELSE ChildrenHeld(n - 1)
            + (IF objs[n].cls = "SuiDataType" THEN Len(objs[n].children) ELSE 0)

add_child(parent, child) ==
    /\ objs[parent].cls = "SuiDataType"
    /\ ChildrenHeld(Len(objs)) < MaxChildren
    /\ objs' = [objs EXCEPT ![parent].children = AddChildTo(@, child)]
    /\ appended' = [appended EXCEPT ![parent] = Append(@, child)]
    /\ ev' = "add_child"
    /\ UNCHANGED <<dicts, descs, dres, ores, handed, shape>>

\* the caller changes a mapping it handed to a classifier earlier
caller_write(w) ==
    /\ w[1] \in DOMAIN dicts
    /\ dicts' = [dicts EXCEPT ![w[1]] = With(@, w[2], w[3])]
    /\ dicts' # dicts
    /\ ev' = "caller_write"
    /\ UNCHANGED <<descs, objs, dres, ores, appended, handed, shape>>

Init == InitFrom(LifecycleInputs)

Next ==
    \/ from_object_descriptor("descIn")
    \/ \E d \in DOMAIN descs : from_object_type(d, "block")
    \/ \E p \in DOMAIN objs : \E c \in DOMAIN objs : add_child(p, c)
    \/ \E w \in CallerWrites : caller_write(w)

Spec == Init /\ [][Next]_vars

InitClassify == InitFrom(ClassifyInputs)

\* each classifier is applied once to the inputs drawn in InitClassify
NextClassify ==
    \/ dres = NoCall /\ from_object_descriptor("descIn")
    \/ ores = NoCall /\ \E d \in DOMAIN descs : from_object_type(d, "block")

SpecClassify == InitClassify /\ [][NextClassify]_vars

----------------------------------------------------------------------------
(* Vocabulary of the properties *)

\* from_object_descriptor was called on the complete metadata record
FullD ==
    /\ dres.kind # "none"
    /\ dres.arg = DescriptorInput(Signature(shape))

\* from_object_type was called on the complete content block
FullO ==
    /\ ores.kind # "none"
    /\ dicts["block"] = BlockInput
    /\ Without(ores.arg, {"previousTransaction", "storageRebate"})
         = DataInput(Signature(shape), FALSE)

\* the residual with its first five characters and its last one removed,
\* cut on every "::"
SlicedPieces(sh) ==
    PySplit(SubSeq(Residual(sh), 6, Len(Residual(sh)) - 1), Sep, NoLimit)

\* the signature is pkg::module::Coin<P::M::N>
IsCoinOf(sh) ==
    /\ sh.n = 3
    /\ sh.pkg = Str0x2
    /\ sh.mod = StrCoin
    /\ sh.head = StrCoinOpen
    /\ sh.tail = StrClose
    /\ Len(sh.inner) = 3

\* the signatures on which the classifiers raise
RejectedShape(sh) ==
    /\ sh.pkg = Str0x2
    /\ \/ sh.n = 1
       \/ sh.n = 2 /\ sh.mod \in {StrCoin, StrDevnetNft}
       \/ sh.n = 3 /\ sh.mod = StrCoin /\ Len(SlicedPieces(sh)) < 3

\* the latest from_object_descriptor call returned an instance of class c
DReturned(c) == dres.kind = "ok" /\ dres.cls = c /\ descs[dres.ref].cls = c

\* the latest from_object_type call returned an instance of class c
OReturned(c) == ores.kind = "ok" /\ ores.cls = c /\ objs[ores.ref].cls = c

----------------------------------------------------------------------------
(* C1: in package 0x2, Coin<P::M::SUI> is the native coin, Coin<P::M::N>   *)
(* with N other than SUI the generic coin, devnet_nft::DevNetNFT the NFT,  *)
(* and any other module, or devnet_nft with another residual, the generic  *)
(* fallback; for both classifiers.                                         *)

C1_Expected(sh, native, coin, nft, generic) ==
    IF IsCoinOf(sh) THEN (IF sh.inner[3] = StrSUI THEN native ELSE coin)
    ELSE IF sh.n = 3 /\ sh.mod = StrDevnetNft
    THEN (IF Residual(sh) = StrDevNetNFT THEN nft ELSE generic)
    ELSE generic

C1_Covered(sh) ==
    /\ sh.pkg = Str0x2
    /\ \/ IsCoinOf(sh)
       \/ sh.n = 3 /\ sh.mod = StrDevnetNft
       \/ sh.n >= 2 /\ sh.mod \notin {StrCoin, StrDevnetNft}

C1_SystemPackageClassification ==
    C1_Covered(shape) =>
        /\ FullD => DReturned(C1_Expected(shape, "SuiNativeCoinDescriptor",
                        "SuiCoinDescriptor", "SuiNftDescriptor", "ObjectInfo"))
        /\ FullO => OReturned(C1_Expected(shape, "SuiGasType", "SuiCoinType",
                        "SuiNftType", "ObjectRead"))

C1_Witness ==
    /\ FullD /\ FullO
    /\ IsCoinOf(shape) /\ shape.inner[3] = StrSUI
    /\ DReturned("SuiNativeCoinDescriptor") /\ OReturned("SuiGasType")

----------------------------------------------------------------------------
(* C2 as stated: every three-part signature other than 0x2::coin and       *)
(* 0x2::devnet_nft yields the structured-data class, whose package, module *)
(* and structure are the three components.                                 *)

C2_StructuredData(sh) ==
    /\ FullD => DReturned("SuiDataDescriptor")
    /\ FullO =>
        /\ OReturned("SuiDataType")
        /\ objs[ores.ref].data_definition
             = [package |-> sh.pkg, module |-> sh.mod,
                structure |-> Residual(sh)]

C2_Original ==
    (/\ shape.n = 3
     /\ ~(shape.pkg = Str0x2 /\ shape.mod \in {StrCoin, StrDevnetNft}))
        => C2_StructuredData(shape)

\* C2 amended: every three-part signature whose package is not 0x2 yields
\* the structured-data class, whose package, module and structure are the
\* three components.
C2_StructuredDataOutsideSystemPackage ==
    (shape.n = 3 /\ shape.pkg # Str0x2) => C2_StructuredData(shape)

C2_Witness ==
    /\ FullD /\ FullO
    /\ shape.n = 3 /\ shape.pkg # Str0x2 /\ Len(shape.inner) >= 2
    /\ OReturned("SuiDataType")
    /\ objs[ores.ref].data_definition.structure = Residual(shape)

----------------------------------------------------------------------------
(* C5 as stated: without an objectId key from_object_descriptor raises the *)
(* KeyError for objectId, and reads no other key before it.                *)

C5_Original ==
    (dres.kind # "none" /\ "objectId" \notin DOMAIN dres.arg) =>
        /\ dres.kind = "KeyError"
        /\ dres.key = "objectId"
        /\ dres.reads = << <<"objectId">> >>

\* C5 amended: without an objectId key from_object_descriptor never returns;
\* it reads type first, raising the KeyError for type when type is absent
\* and IndexError when the signature is one the dispatch rejects, and
\* otherwise raises the KeyError for objectId, the first key read after
\* type, whatever the remaining keys hold or lack.
C5_MissingObjectIdAfterType ==
    (dres.kind # "none" /\ "objectId" \notin DOMAIN dres.arg) =>
        IF "type" \notin DOMAIN dres.arg
        THEN /\ dres.kind = "KeyError"
             /\ dres.key = "type"
             /\ dres.reads = << <<"type">> >>
        ELSE IF RejectedShape(shape)
        THEN /\ dres.kind = "IndexError"
             /\ dres.reads = << <<"type">> >>
        ELSE /\ dres.kind = "KeyError"
             /\ dres.key = "objectId"
             /\ dres.reads = << <<"type">>, <<"objectId">> >>

C5_Witness ==
    /\ dres.kind = "KeyError"
    /\ dres.key = "objectId"
    /\ "objectId" \notin DOMAIN dres.arg
    /\ "version" \notin DOMAIN dres.arg
    /\ "type" \in DOMAIN dres.arg

----------------------------------------------------------------------------
(* C6 as stated: both classifiers raise on every signature with fewer than *)
(* three components and on every 0x2::coin signature whose sliced residual *)
(* has fewer than three pieces.                                            *)

C6_Malformed(sh) ==
    \/ sh.n < 3
    \/ sh.pkg = Str0x2 /\ sh.mod = StrCoin /\ Len(SlicedPieces(sh)) < 3

C6_Original ==
    C6_Malformed(shape) =>
        /\ FullD => dres.kind = "IndexError"
        /\ FullO => ores.kind = "IndexError"

\* C6 amended: both classifiers raise IndexError, returning no instance,
\* exactly on the signature 0x2 alone, on 0x2::coin and 0x2::devnet_nft
\* without a residual, and on every 0x2::coin signature whose sliced
\* residual has fewer than three pieces; every other signature with fewer
\* than three components yields the generic fallback class.
C6_RejectedSignatures ==
    /\ (dres.kind # "none" /\ "type" \in DOMAIN dres.arg) =>
        /\ dres.kind = "IndexError" <=> RejectedShape(shape)
        /\ dres.kind = "IndexError" => dres.ref = 0 /\ dres.cls = ""
    /\ (ores.kind # "none" /\ "type" \in DOMAIN ores.arg
            /\ dicts["block"] = BlockInput) =>
        /\ ores.kind = "IndexError" <=> RejectedShape(shape)
        /\ ores.kind = "IndexError" => ores.ref = 0 /\ ores.cls = ""
    /\ (shape.n < 3 /\ ~RejectedShape(shape)) =>
        /\ FullD => DReturned("ObjectInfo")
        /\ FullO => OReturned("ObjectRead")

C6_Witness ==
    /\ FullD /\ FullO
    /\ shape.n = 3 /\ shape.head = StrCoinOpen /\ Len(shape.inner) = 2
    /\ dres.kind = "IndexError" /\ ores.kind = "IndexError"
    /\ Len(descs) = 1 /\ objs = <<>>

----------------------------------------------------------------------------
(* C9: on the same signature the two classifiers both raise or return      *)
(* corresponding classes, and the object holds the descriptor it was       *)
(* handed, whatever that descriptor's class.                               *)

CorrespondingClasses ==
    {<<"ObjectInfo", "ObjectRead">>, <<"SuiDataDescriptor", "SuiDataType">>,
     <<"SuiNftDescriptor", "SuiNftType">>, <<"SuiCoinDescriptor", "SuiCoinType">>,
     <<"SuiNativeCoinDescriptor", "SuiGasType">>}

C9_ObjectClassifierMirrors ==
    /\ (FullD /\ FullO) =>
        \/ dres.kind = "IndexError" /\ ores.kind = "IndexError"
        \/ /\ dres.kind = "ok" /\ ores.kind = "ok"
           /\ <<descs[dres.ref].cls, objs[ores.ref].cls>> \in CorrespondingClasses
    /\ ores.kind = "ok" => objs[ores.ref].descriptor = ores.given

C9_Witness ==
    /\ FullD /\ FullO
    /\ DReturned("SuiNftDescriptor") /\ OReturned("SuiNftType")
    /\ objs[ores.ref].descriptor = ores.given
    /\ descs[ores.given].cls = "SuiNativeCoinDescriptor"

----------------------------------------------------------------------------
(* C10: for a 0x2::coin signature the outcome is a function of the         *)
(* residual with its first five characters and its last one removed: an    *)
(* IndexError with fewer than three pieces, the native coin when the third *)
(* piece is SUI, the generic coin otherwise; the wrapper's name and the    *)
(* first two pieces play no part.                                          *)

C10_Expected(pieces, native, coin) ==
    IF Len(pieces) < 3 THEN "IndexError"
    ELSE IF pieces[3] = StrSUI THEN native ELSE coin

C10_Result(res) == IF res.kind = "ok" THEN res.cls ELSE res.kind

C10_FixedLengthUnwrap ==
    (shape.n = 3 /\ shape.pkg = Str0x2 /\ shape.mod = StrCoin) =>
        /\ FullD =>
            /\ C10_Result(dres) = C10_Expected(SlicedPieces(shape),
                    "SuiNativeCoinDescriptor", "SuiCoinDescriptor")
            /\ (Len(shape.head) = 5 /\ Len(shape.tail) = 1) =>
                C10_Result(dres) = C10_Expected(shape.inner,
                    "SuiNativeCoinDescriptor", "SuiCoinDescriptor")
        /\ FullO =>
            /\ C10_Result(ores) = C10_Expected(SlicedPieces(shape),
                    "SuiGasType", "SuiCoinType")
            /\ (Len(shape.head) = 5 /\ Len(shape.tail) = 1) =>
                C10_Result(ores) = C10_Expected(shape.inner,
                    "SuiGasType", "SuiCoinType")

C10_Witness ==
    /\ FullD /\ FullO
    /\ shape.n = 3 /\ shape.pkg = Str0x2 /\ shape.mod = StrCoin
    /\ shape.head = StrXoinOpen /\ shape.tail = StrClose
    /\ shape.inner = <<StrSUI, <<>>, StrSUI>>
    /\ DReturned("SuiNativeCoinDescriptor") /\ OReturned("SuiGasType")

----------------------------------------------------------------------------
(* C3: every object's version and digest are those of the descriptor it    *)
(* was handed, at every point after construction, whether or not its       *)
(* content carries version and digest keys; the object keeps no copy.      *)

C3_VersionDigestProxy ==
    \A o \in DOMAIN objs :
        /\ ObjectVersion(o) = descs[handed[o]].version
        /\ ObjectDigest(o) = descs[handed[o]].digest
        /\ DOMAIN objs[o] \cap {"version", "digest", "_version", "_digest"} = {}

C3_Witness ==
    \E o \in DOMAIN objs :
        /\ objs[o].cls = "SuiDataType"
        /\ Len(objs[o].children) = 2
        /\ "version" \in DOMAIN ObjectJson(o)
        /\ ObjectJson(o).version # ObjectVersion(o)
        /\ ObjectVersion(o) = descs[handed[o]].version
        /\ handed[o] = 2

----------------------------------------------------------------------------
(* C4: a structured-data object's child list is empty at construction and  *)
(* holds exactly the children given to add_child, in the order given.      *)

C4_ChildrenAppendOrder ==
    \A o \in DOMAIN objs :
        objs[o].cls = "SuiDataType" => objs[o].children = appended[o]

C4_Witness ==
    \E o \in DOMAIN objs :
        /\ objs[o].cls = "SuiDataType"
        /\ Len(appended[o]) = 2
        /\ appended[o][1] # appended[o][2]
        /\ objs[o].children = appended[o]

----------------------------------------------------------------------------
(* C7: a call of either classifier, returning or raising, leaves the       *)
(* caller's mappings with the keys and values they had.                    *)

C7_NoSideEffectOnInput ==
    [][ev' \in {"from_object_descriptor", "from_object_type"}
            => dicts' = dicts]_vars

----------------------------------------------------------------------------
(* C8: what json() of an instance returns is changed by no later event:    *)
(* not by the caller changing the mapping it passed, nor by a later        *)
(* classifier call.                                                        *)

C8_JsonIndependentOfInput ==
    [][/\ \A i \in DOMAIN descs : DescriptorJson(i)' = DescriptorJson(i)
       /\ \A o \in DOMAIN objs : ObjectJson(o)' = ObjectJson(o)]_vars

====
